---- MODULE Spec2Model ----
(***************************************************************************)
(* A model of questions-visuallizer: the POST handler of /api/visualize     *)
(* and its helper executePython (src/unnamed/part_002), the POST handler   *)
(* of /api/ocr (src/unnamed/part_001), the storage client the              *)
(* visualization route imports (src/lib/supabaseClient.ts) and the         *)
(* HomePage component that calls both routes (src/unnamed/part_000).       *)
(*                                                                         *)
(* Strings are sequences of one-character strings, so that trim,           *)
(* startsWith, endsWith, substring, split, join and indexOf are computed   *)
(* character by character as the JavaScript runtime computes them.         *)
(* Fixed message literals that the code only concatenates and never        *)
(* inspects are kept as one element of the sequence.                       *)
(***************************************************************************)
EXTENDS Integers, Sequences, FiniteSets, TLC

VARIABLES
    apiKey,     \* process.env.GEMINI_API_KEY, shared by every request
    req,        \* req[r]: the locals of the POST invocation serving request r
    child,      \* child[r]: the subprocess of r and the closure of executePython
    calls,      \* calls[r]: the outbound calls r has made so far
    env,        \* process.env of the OCR route and of the storage client
    route,      \* the module of the visualization route, evaluated on first use
    ocr,        \* the locals of the POST invocation of /api/ocr
    page        \* the state of the HomePage component and its pending fetch

vars == <<apiKey, req, child, calls, env, route, ocr, page>>

----------------------------------------------------------------------------
(* Bounds of the model *)

\* Pieces a generated text is built from in SpecSanitize.
MaxPieces == 5
\* Pieces a captured stdout is built from in SpecExtract.
MaxOutPieces == 5
\* 'data' events on the subprocess's stdout and stderr.
MaxStdoutChunks == 3
MaxStderrChunks == 1
\* 'data' events on the stdout of each of two concurrent subprocesses.
MaxConcChunks == 2
\* 'data' events on the stdout of a subprocess run for the page.
MaxPageChunks == 2

----------------------------------------------------------------------------
(* JavaScript string primitives on sequences of characters *)

None == <<>>
Some(x) == <<x>>

Min(a, b) == IF a < b THEN a ELSE b
Max(a, b) == IF a < b THEN b ELSE a

\* The characters String.prototype.trim removes (those of the model's alphabet).
WhiteSpace == {" ", "\n", "\t", "\r"}

RECURSIVE TrimStart(_)
TrimStart(s) ==
    IF s = <<>> THEN s
    ELSE IF Head(s) \in WhiteSpace THEN TrimStart(Tail(s)) ELSE s

RECURSIVE TrimEnd(_)
TrimEnd(s) ==
    IF s = <<>> THEN s
    ELSE IF s[Len(s)] \in WhiteSpace THEN TrimEnd(SubSeq(s, 1, Len(s) - 1)) ELSE s

Trim(s) == TrimEnd(TrimStart(s))

StartsWith(s, p) == Len(s) >= Len(p) /\ SubSeq(s, 1, Len(p)) = p

EndsWith(s, p) == Len(s) >= Len(p) /\ SubSeq(s, Len(s) - Len(p) + 1, Len(s)) = p

\* s.substring(start, end): both clamped to [0, length], swapped when start > end.
Substring(s, start, end) ==
    LET a == Max(0, Min(start, Len(s)))
        b == Max(0, Min(end, Len(s)))
    IN  SubSeq(s, Min(a, b) + 1, Max(a, b))

SubstringFrom(s, start) == Substring(s, start, Len(s))

\* s.indexOf(needle, from): from is clamped to [0, length]; the least 0-based
\* position >= from at which needle occurs, or -1.
IndexOf(s, needle, from) ==
    LET k == Max(0, Min(from, Len(s)))
        found == {i \in k..(Len(s) - Len(needle)) :
                    SubSeq(s, i + 1, i + Len(needle)) = needle}
    IN  IF found = {} THEN -1
        ELSE CHOOSE i \in found : \A j \in found : i <= j

\* s.split(sep) for a one-character separator: always at least one element.
RECURSIVE Split(_, _)
Split(s, sep) ==
    LET i == IndexOf(s, <<sep>>, 0)
    IN  IF i = -1 THEN <<s>>
        ELSE <<SubSeq(s, 1, i)>> \o Split(SubSeq(s, i + 2, Len(s)), sep)

\* lines.join(sep)
RECURSIVE Join(_, _)
Join(lines, sep) ==
    IF lines = <<>> THEN <<>>
    ELSE IF Len(lines) = 1 THEN lines[1]
    ELSE lines[1] \o <<sep>> \o Join(Tail(lines), sep)

\* The concatenation of a sequence of strings.
RECURSIVE Concat(_)
Concat(ps) == IF ps = <<>> THEN <<>> ELSE Head(ps) \o Concat(Tail(ps))

\* All sequences of at most n elements of S.
SeqUpTo(S, n) == UNION {[1..k -> S] : k \in 0..n}

----------------------------------------------------------------------------
(* The fence cleanup of the generated code, POST lines 177-200 *)

\* The grave accent U+0060, which a TLA+ string cannot hold.
BQ == "<U+0060>"

FencePython == <<BQ, BQ, BQ, "p", "y", "t", "h", "o", "n">>
Fence == <<BQ, BQ, BQ>>
PythonWord == <<"p", "y", "t", "h", "o", "n">>

\* if (cleanedCode.startsWith(FencePython)) ...substring(len).trimStart()
StripLeadingFence(c) ==
    IF StartsWith(c, FencePython)
    THEN TrimStart(SubstringFrom(c, Len(FencePython)))
    ELSE c

\* if (cleanedCode.endsWith(Fence)) ...substring(0, length - 3).trimEnd()
StripTrailingFence(c) ==
    IF EndsWith(c, Fence)
    THEN TrimEnd(Substring(c, 0, Len(c) - Len(Fence)))
    ELSE c

\* A variant of StripHeaderLine that drops a first line that only begins with the
\* language name.
StripHeaderLinePrefix(c) ==
    LET lines == Split(c, "\n")
    IN  IF StartsWith(Trim(lines[1]), PythonWord) THEN Join(Tail(lines), "\n")
        ELSE IF Trim(lines[1]) = FencePython THEN Join(Tail(lines), "\n")
        ELSE c

\* lines = split('\n'); drop lines[0] when it trims to 'python' or to FencePython
StripHeaderLine(c) ==
    LET lines == Split(c, "\n")
    IN  IF Trim(lines[1]) = PythonWord THEN Join(Tail(lines), "\n")
        ELSE IF Trim(lines[1]) = FencePython THEN Join(Tail(lines), "\n")
        ELSE c

Sanitize(generatedCode) ==
    StripTrailingFence(StripHeaderLine(StripTrailingFence(
        StripLeadingFence(Trim(generatedCode)))))

----------------------------------------------------------------------------
(* The prompt, lines 11-55 and 142 *)

Placeholder ==
    <<"{", "P", "R", "O", "B", "L", "E", "M", "_", "T", "E", "X", "T", "}">>

\* The template literal: the instructions of lines 11-49 and the closing lines
\* 53-55 are kept whole; the problem section is kept as written.
ENGINEERED_PROMPT_TEMPLATE ==
    <<"<instructions, lines 11-49>", "--- START PROBLEM ---", "\n">>
    \o Placeholder
    \o <<"\n", "--- END PROBLEM ---", "<closing, lines 53-55>">>

\* The replacement patterns String.prototype.replace expands in a replacement
\* string when the pattern is a string: $$, $&, $` and $'.
RECURSIVE ExpandReplacement(_, _, _, _)
ExpandReplacement(rep, matched, before, after) ==
    IF rep = <<>> THEN <<>>
    ELSE IF Head(rep) = "$" /\ Len(rep) >= 2 /\ rep[2] \in {"$", "&", BQ, "'"}
    THEN (CASE rep[2] = "$" -> <<"$">>
            [] rep[2] = "&" -> matched
            [] rep[2] = BQ  -> before
            [] rep[2] = "'" -> after)
         \o ExpandReplacement(SubSeq(rep, 3, Len(rep)), matched, before, after)
    ELSE <<Head(rep)>> \o ExpandReplacement(Tail(rep), matched, before, after)

\* s.replace(pattern, replacement) with a string pattern: the first occurrence only.
Replace(s, pattern, replacement) ==
    LET i == IndexOf(s, pattern, 0)
        before == SubSeq(s, 1, Max(i, 0))
        after == SubSeq(s, Max(i, 0) + Len(pattern) + 1, Len(s))
    IN  IF i = -1 THEN s
        ELSE before \o ExpandReplacement(replacement, pattern, before, after) \o after

BuildPrompt(problemText) ==
    Replace(ENGINEERED_PROMPT_TEMPLATE, Placeholder, problemText)

----------------------------------------------------------------------------
(* The marker extraction, lines 210-230 *)

base64MarkerStart ==
    <<"M", "A", "T", "P", "L", "O", "T", "L", "I", "B", "_", "B", "A", "S",
      "E", "6", "4", "_", "S", "T", "A", "R", "T", ":">>

base64MarkerEnd ==
    <<":", "M", "A", "T", "P", "L", "O", "T", "L", "I", "B", "_", "B", "A",
      "S", "E", "6", "4", "_", "E", "N", "D">>

\* NextResponse.json(body, { status })
Json(body, status) == [status |-> status, body |-> body]

\* Variants of ExtractResponse: one answers 200 with a warning when the markers
\* are missing, one looks for the end marker from the start of the output, one
\* accepts either marker alone.
ExtractResponseWarning(pythonOutput) ==
    LET startIndex == IndexOf(pythonOutput, base64MarkerStart, 0)
        endIndex == IndexOf(pythonOutput, base64MarkerEnd,
                            startIndex + Len(base64MarkerStart))
    IN  IF startIndex # -1 /\ endIndex # -1
        THEN Json([imageBase64 |->
                      Substring(pythonOutput,
                                startIndex + Len(base64MarkerStart), endIndex)],
                  200)
        ELSE Json([warning |-> <<"Failed to process visualization from Python script">>],
                  200)

ExtractResponseEndFromZero(pythonOutput) ==
    LET startIndex == IndexOf(pythonOutput, base64MarkerStart, 0)
        endIndex == IndexOf(pythonOutput, base64MarkerEnd, 0)
    IN  IF startIndex # -1 /\ endIndex # -1
        THEN Json([imageBase64 |->
                      Substring(pythonOutput,
                                startIndex + Len(base64MarkerStart), endIndex)],
                  200)
        ELSE Json([error |-> <<"Failed to process visualization from Python script">>,
                   details |->
                      <<"Could not find base64 image markers in the script output. Python output was: ">>
                      \o pythonOutput],
                  500)

ExtractResponseEitherMarker(pythonOutput) ==
    LET startIndex == IndexOf(pythonOutput, base64MarkerStart, 0)
        endIndex == IndexOf(pythonOutput, base64MarkerEnd,
                            startIndex + Len(base64MarkerStart))
    IN  IF startIndex # -1 \/ endIndex # -1
        THEN Json([imageBase64 |->
                      Substring(pythonOutput,
                                startIndex + Len(base64MarkerStart), endIndex)],
                  200)
        ELSE Json([error |-> <<"Failed to process visualization from Python script">>,
                   details |->
                      <<"Could not find base64 image markers in the script output. Python output was: ">>
                      \o pythonOutput],
                  500)

ExtractResponse(pythonOutput) ==
    LET startIndex == IndexOf(pythonOutput, base64MarkerStart, 0)
        endIndex == IndexOf(pythonOutput, base64MarkerEnd,
                            startIndex + Len(base64MarkerStart))
    IN  IF startIndex # -1 /\ endIndex # -1
        THEN Json([imageBase64 |->
                      Substring(pythonOutput,
                                startIndex + Len(base64MarkerStart), endIndex)],
                  200)
        ELSE Json([error |-> <<"Failed to process visualization from Python script">>,
                   details |->
                      <<"Could not find base64 image markers in the script output. Python output was: ">>
                      \o pythonOutput],
                  500)

----------------------------------------------------------------------------
(* executePython, lines 58-96 *)

\* The two bytes of a two-byte UTF-8 character, and what Buffer.toString makes
\* of them: the character when they arrive together, U+FFFD for each when a
\* chunk boundary (or the script) separates them.
LeadByte == "<0xC3>"
ContByte == "<0xA9>"
Replacement == "<U+FFFD>"
EAcute == "<U+00E9>"

\* data.toString(): UTF-8 decoding of one chunk on its own.  A lead byte and the
\* continuation byte after it make one character; the continuation byte then
\* yields nothing ("" below, removed); any other byte of the two is malformed.
BufToString(data) ==
    LET decoded ==
          [i \in 1..Len(data) |->
             IF data[i] = LeadByte /\ i < Len(data) /\ data[i + 1] = ContByte
             THEN EAcute
             ELSE IF data[i] = ContByte /\ i > 1 /\ data[i - 1] = LeadByte
             THEN ""
             ELSE IF data[i] \in {LeadByte, ContByte}
             THEN Replacement
             ELSE data[i]]
    IN  SelectSeq(decoded, LAMBDA ch : ch # "")

\* The exit code 'close' passes: a number, or null when a signal ended the process.
ExitCode(n) == [isNull |-> FALSE, n |-> n]
ExitNull == [isNull |-> TRUE, n |-> 0]

\* `${exitCode}`
CodeText(exitCode) == IF exitCode.isNull THEN "null" ELSE ToString(exitCode.n)

\* A promise settles once: resolve and reject on a settled promise do nothing.
Pending == [state |-> "pending", value |-> <<>>]
Resolve(promise, value) ==
    IF promise.state = "pending" THEN [state |-> "resolved", value |-> value]
    ELSE promise
\* A variant of Reject that settles a settled promise again.
RejectOverwrites(promise, message) == [state |-> "rejected", value |-> message]

Reject(promise, message) ==
    IF promise.state = "pending" THEN [state |-> "rejected", value |-> message]
    ELSE promise

\* No subprocess: executePython has not been called.  stdout, stderr and promise
\* are the closure's variables; the rest is the process as the operating system
\* sees it: how it was launched, the events delivered so far, the chunks its
\* stdout delivered and the exit code 'close' carried.
NoChild ==
    [launch |-> "none", code |-> <<>>, stdout |-> <<>>, stderr |-> <<>>,
     nOut |-> 0, nErr |-> 0, closed |-> FALSE, errored |-> FALSE,
     exit |-> ExitNull, outChunks |-> <<>>,
     promise |-> [state |-> "none", value |-> <<>>]]

\* The message of the exception spawn throws synchronously, and of the 'error'
\* event.
SpawnThrowMessage == <<"<message of the error spawn threw>">>
SpawnErrorMessage == <<"<err.message of the 'error' event>">>

\* new Promise(...): spawn('python', ['-c', code]) with empty buffers.  launch is
\* what the operating system does with it: "started" (a process runs), "failed"
\* (no process: 'error' is emitted), "threw" (spawn throws, the executor's
\* exception rejects the promise).
executePython(code, launch) ==
    [NoChild EXCEPT
        !.launch = launch,
        !.code = code,
        !.closed = (launch = "threw"),
        !.promise = IF launch = "threw"
                    THEN Reject(Pending, SpawnThrowMessage)
                    ELSE Pending]

\* pythonProcess.stdout.on('data', ...)
OnStdoutData(c, data) ==
    [c EXCEPT !.stdout = @ \o BufToString(data), !.nOut = @ + 1,
              !.outChunks = Append(@, data)]

\* pythonProcess.stderr.on('data', ...)
OnStderrData(c, data) ==
    [c EXCEPT !.stderr = @ \o BufToString(data), !.nErr = @ + 1]

\* Variants of OnClose: one puts stdout in the rejection's message, one fails a
\* zero exit that wrote to stderr.
OnCloseStdoutInMessage(c, exitCode) ==
    [c EXCEPT
        !.closed = TRUE,
        !.exit = exitCode,
        !.promise =
            IF ~exitCode.isNull /\ exitCode.n = 0
            THEN Resolve(@, c.stdout)
            ELSE Reject(@, <<"Python script execution failed with code ",
                             CodeText(exitCode), ": ">> \o c.stdout)]

OnCloseStderrFails(c, exitCode) ==
    [c EXCEPT
        !.closed = TRUE,
        !.exit = exitCode,
        !.promise =
            IF ~exitCode.isNull /\ exitCode.n = 0 /\ c.stderr = <<>>
            THEN Resolve(@, c.stdout)
            ELSE Reject(@, <<"Python script execution failed with code ",
                             CodeText(exitCode), ": ">> \o c.stderr)]

\* pythonProcess.on('close', ...)
OnClose(c, exitCode) ==
    [c EXCEPT
        !.closed = TRUE,
        !.exit = exitCode,
        !.promise =
            IF ~exitCode.isNull /\ exitCode.n = 0
            THEN Resolve(@, c.stdout)
            ELSE Reject(@, <<"Python script execution failed with code ",
                             CodeText(exitCode), ": ">> \o c.stderr)]

\* pythonProcess.on('error', ...)
OnError(c, message) ==
    [c EXCEPT
        !.errored = TRUE,
        !.promise = Reject(@, <<"Failed to start Python process: ">> \o message)]

----------------------------------------------------------------------------
(* The inputs of a request and the answers of its environment *)

\* The POST invocations the model follows.
Slots == {1, 2}

\* JavaScript values as JSON.parse produces them.
JsUndefined == [t |-> "undefined", s |-> <<>>, n |-> 0]
JsNull == [t |-> "null", s |-> <<>>, n |-> 0]
JsNumber(n) == [t |-> "number", s |-> <<>>, n |-> n]
JsString(s) == [t |-> "string", s |-> s, n |-> 0]

\* !v
Falsy(v) ==
    \/ v.t \in {"undefined", "null"}
    \/ v.t = "number" /\ v.n = 0
    \/ v.t = "string" /\ v.s = <<>>

ProblemTextValues ==
    {JsUndefined, JsNull, JsNumber(0), JsNumber(5),
     JsString(<<>>), JsString(<<" ", "\n">>), JsString(<<"\t">>),
     JsString(<<"c">>), JsString(<<"$", "&">>)}

\* What request.text() and JSON.parse make of the request: parse "throws"
\* (unreadable body or invalid JSON), or the parsed value, whose top is null, a
\* number or an object with the given problemText property.
RawBodies ==
    {[parse |-> "throws", top |-> "none", problemText |-> JsUndefined],
     [parse |-> "ok", top |-> "null", problemText |-> JsUndefined],
     [parse |-> "ok", top |-> "number", problemText |-> JsUndefined]}
    \cup {[parse |-> "ok", top |-> "object", problemText |-> v] :
            v \in ProblemTextValues}

\* process.env.GEMINI_API_KEY: unset, set to the empty string, or set.
ApiKeys == {None, Some(<<>>), Some(<<"k">>)}

RefusalPrefix ==
    <<"E", "R", "R", "O", "R", ":", "C", "A", "N", "N", "O", "T", "_", "V",
      "I", "S", "U", "A", "L", "I", "Z", "E", ":">>

\* Texts response.text() returns in the single-request specification.
GeneratedTexts ==
    {<<>>, <<" ", "\n">>,
     RefusalPrefix \o <<"n", "o">>,
     <<" ">> \o RefusalPrefix,
     <<"x">>,
     FencePython \o <<"\n", "x", "\n">> \o Fence}

\* How model.generateContent and the reading of its result end.
ModelOutcome(kind, blockReason, text) ==
    [kind |-> kind, blockReason |-> blockReason, text |-> text]

ModelOutcomes ==
    {ModelOutcome("throws", "", <<>>),
     ModelOutcome("noResponse", "", <<>>),
     ModelOutcome("textThrows", "", <<>>)}
    \cup {ModelOutcome("blocked", b, <<>>) : b \in {"SAFETY", "OTHER"}}
    \cup {ModelOutcome("text", "", t) : t \in GeneratedTexts}

ApiErrorMessage == <<"<apiError.message>">>
ParseErrorMessage == <<"<e.message of the body parse>">>
TypeErrorMessage == <<"<error.message of the TypeError>">>

Launches == {"started", "failed", "threw"}

\* Chunks of bytes the subprocess writes to its stdout and stderr.
StdoutChunks ==
    {base64MarkerStart, base64MarkerEnd, <<"A">>,
     <<LeadByte>>, <<ContByte>>, <<LeadByte, ContByte>>}
StderrChunks == {<<"W">>, <<LeadByte>>}

\* Exit codes of a process that ran, and the code 'close' carries when none did.
ExitCodes == {ExitCode(0), ExitCode(1), ExitNull}
SpawnFailedExit == ExitCode(-2)

----------------------------------------------------------------------------
(* POST, lines 98-254 *)

\* The locals of one invocation; pc is the await it is suspended at.
NewRequest(pc, rawBody) ==
    [pc |-> pc, rawBody |-> rawBody,
     problemText |-> None, fullPrompt |-> None, result |-> None,
     generatedCode |-> None,
     cleanedCode |-> None, pythonOutput |-> None, responses |-> <<>>]

NoCalls == [generate |-> 0, spawn |-> 0]

\* return NextResponse.json(...)
Respond(rq, response) ==
    [rq EXCEPT !.responses = Append(@, response), !.pc = "done"]

\* Lines 101-109: the key check, up to the await of request.text().
Start(r) ==
    /\ req[r].pc = "received"
    /\ req' = [req EXCEPT ![r] =
                IF apiKey = None \/ apiKey = Some(<<>>)
                THEN Respond(@,
                        Json([error |-> <<"AI service configuration error - API key not found">>,
                              details |-> <<"Please set the GEMINI_API_KEY environment variable">>],
                             500))
                ELSE [@ EXCEPT !.pc = "readBody"]]
    /\ UNCHANGED <<apiKey, child, calls, env, route, ocr, page>>

\* A variant of InvalidProblemText that does not trim.
InvalidProblemTextNoTrim(v) ==
    \/ Falsy(v)
    \/ v.t # "string"

\* Line 125: the test that rejects the problem text.
InvalidProblemText(v) ==
    \/ Falsy(v)
    \/ v.t # "string"
    \/ Trim(v.s) = <<>>

\* Lines 112-146: parse the body, validate the text, build the prompt and call
\* model.generateContent.
ParseBody(r) ==
    LET rq == req[r]
        b == rq.rawBody
        valid == /\ b.parse = "ok"
                 /\ b.top # "null"
                 /\ ~InvalidProblemText(b.problemText)
    IN  /\ rq.pc = "readBody"
        /\ req' = [req EXCEPT ![r] =
             IF b.parse = "throws"
             THEN Respond(@, Json([error |-> <<"Invalid JSON in request body">>,
                                   details |-> ParseErrorMessage], 400))
             ELSE IF b.top = "null"
             THEN Respond(@, Json([error |-> <<"Internal server error">>,
                                   details |-> TypeErrorMessage,
                                   type |-> <<"TypeError">>], 500))
             ELSE IF InvalidProblemText(b.problemText)
             THEN Respond(@, Json([error |-> <<"No problem text provided or text is invalid.">>],
                                  400))
             ELSE [@ EXCEPT !.problemText = Some(b.problemText.s),
                            !.fullPrompt = Some(BuildPrompt(b.problemText.s)),
                            !.pc = "awaitModel"]]
        /\ calls' = [calls EXCEPT ![r].generate = IF valid THEN @ + 1 ELSE @]
        /\ UNCHANGED <<apiKey, child, env, route, ocr, page>>

\* Lines 146-207, from the settling of generateContent to a response or to the
\* call of executePython.  out is how the model answered; launch is what becomes
\* of the spawn, and is read only when the handler gets as far as spawning.
\* A variant of RefusedByModel that wants the whole text to be the prefix.
RefusedByModelExact(generatedCode) == generatedCode = RefusalPrefix

\* Line 169: generatedCode.startsWith('ERROR:CANNOT_VISUALIZE:')
RefusedByModel(generatedCode) == StartsWith(generatedCode, RefusalPrefix)

\* A variant of BlockedResponse that leaves the block reason out.
BlockedResponseNoReason(blockReason) ==
    Json([error |-> <<"Content blocked">>,
          details |-> [blockReason |-> ""]], 400)

\* Lines 157-160
BlockedResponse(blockReason) ==
    Json([error |-> <<"Content blocked: ", blockReason>>,
          details |-> [blockReason |-> blockReason]], 400)

\* Lines 171-174
RefusalResponse(generatedCode) ==
    Json([error |-> <<"Problem cannot be visualized by AI">>,
          details |-> generatedCode], 422)

\* A variant of Proceeds that goes on to executePython with a refusal.
ProceedsOnRefusal(out) ==
    /\ out.kind = "text"
    /\ ~(out.text = <<>> \/ Trim(out.text) = <<>>)

\* The answers that take the handler on to the cleanup and to executePython.
Proceeds(out) ==
    /\ out.kind = "text"
    /\ ~(out.text = <<>> \/ Trim(out.text) = <<>>)
    /\ ~RefusedByModel(out.text)

ModelAnswers(r, out, launch) ==
    /\ req[r].pc = "awaitModel"
    /\ req' = [req EXCEPT ![r] =
         LET rq == [@ EXCEPT !.result = Some(out)]
             got == [rq EXCEPT !.generatedCode = Some(out.text)]
         IN  IF out.kind \in {"throws", "textThrows"}
             THEN Respond(rq, Json([error |-> <<"Error calling Gemini API">>,
                                    details |-> ApiErrorMessage], 500))
             ELSE IF out.kind = "noResponse"
             THEN Respond(rq, Json([error |-> <<"AI model returned an empty response">>],
                                   500))
             ELSE IF out.kind = "blocked"
             THEN Respond(rq, BlockedResponse(out.blockReason))
             ELSE IF out.text = <<>> \/ Trim(out.text) = <<>>
             THEN Respond(got, Json([error |-> <<"Empty response from AI">>], 500))
             ELSE IF RefusedByModel(out.text)
             THEN Respond(got, RefusalResponse(out.text))
             ELSE [got EXCEPT !.cleanedCode = Some(Sanitize(out.text)),
                              !.pc = "awaitPython"]]
    /\ IF Proceeds(out)
       THEN /\ child' = [child EXCEPT ![r] = executePython(Sanitize(out.text), launch)]
            /\ calls' = [calls EXCEPT ![r].spawn = @ + 1]
       ELSE /\ launch = "started"
            /\ UNCHANGED <<child, calls>>
    /\ UNCHANGED <<apiKey, env, route, ocr, page>>

\* A variant of StdoutData in which stdout is one buffer of the module, shared
\* by every subprocess that is running.
StdoutDataSharedBuffer(r, data) ==
    /\ child[r].launch = "started"
    /\ ~child[r].closed
    /\ child[r].nOut < MaxStdoutChunks
    /\ child' = [s \in Slots |->
                  IF child[s].launch = "started" /\ ~child[s].closed
                  THEN OnStdoutData(child[s], data)
                  ELSE child[s]]
    /\ UNCHANGED <<apiKey, req, calls, env, route, ocr, page>>

\* The subprocess's events, each running its handler.
StdoutData(r, data) ==
    /\ child[r].launch = "started"
    /\ ~child[r].closed
    /\ child[r].nOut < MaxStdoutChunks
    /\ child' = [child EXCEPT ![r] = OnStdoutData(@, data)]
    /\ UNCHANGED <<apiKey, req, calls, env, route, ocr, page>>

StderrData(r, data) ==
    /\ child[r].launch = "started"
    /\ ~child[r].closed
    /\ child[r].nErr < MaxStderrChunks
    /\ child' = [child EXCEPT ![r] = OnStderrData(@, data)]
    /\ UNCHANGED <<apiKey, req, calls, env, route, ocr, page>>

Close(r, exitCode) ==
    /\ child[r].launch \in {"started", "failed"}
    /\ ~child[r].closed
    /\ IF child[r].launch = "started"
       THEN exitCode \in ExitCodes
       ELSE exitCode = SpawnFailedExit
    /\ child' = [child EXCEPT ![r] = OnClose(@, exitCode)]
    /\ UNCHANGED <<apiKey, req, calls, env, route, ocr, page>>

ErrorEvent(r) ==
    /\ child[r].launch = "failed"
    /\ ~child[r].errored
    /\ child' = [child EXCEPT ![r] = OnError(@, SpawnErrorMessage)]
    /\ UNCHANGED <<apiKey, req, calls, env, route, ocr, page>>

\* Lines 207-238: the await of executePython returns or throws.
PythonSettled(r) ==
    /\ req[r].pc = "awaitPython"
    /\ child[r].promise.state \in {"resolved", "rejected"}
    /\ req' = [req EXCEPT ![r] =
         IF child[r].promise.state = "resolved"
         THEN Respond([@ EXCEPT !.pythonOutput = Some(child[r].promise.value)],
                      ExtractResponse(child[r].promise.value))
         ELSE Respond(@, Json([error |-> <<"Error executing visualization script">>,
                               details |-> child[r].promise.value], 500))]
    /\ UNCHANGED <<apiKey, child, calls, env, route, ocr, page>>

----------------------------------------------------------------------------
(* src/lib/supabaseClient.ts, and the import of it by the visualization     *)
(* route (src/unnamed/part_002, line 6)                                    *)

\* !x of an environment variable: unset or the empty string.
Unset(x) == x = None \/ x = Some(<<>>)

\* process.env: each variable is unset, set to the empty string, or set.
EnvValues == {None, Some(<<>>), Some(<<"v">>)}

EnvOf(ocrKey, url, anonKey) ==
    [OCR_SPACE_API_KEY |-> ocrKey,
     NEXT_PUBLIC_SUPABASE_URL |-> url,
     NEXT_PUBLIC_SUPABASE_ANON_KEY |-> anonKey]

Envs == {EnvOf(k, u, a) : k \in EnvValues, u \in EnvValues, a \in EnvValues}

EnvConfigured == EnvOf(Some(<<"v">>), Some(<<"v">>), Some(<<"v">>))

\* A module that has not been evaluated, and one whose evaluation completed.
\* created counts the createClient calls, which build the client object and
\* send nothing; requests counts the calls made on the client.
RouteUnloaded == [state |-> "unloaded", error |-> None, created |-> 0, requests |-> 0]
RouteLoaded == [state |-> "loaded", error |-> None, created |-> 1, requests |-> 0]

\* The evaluation of the module: lines 4-13 throw, line 16 creates the client.
supabaseClient(e) ==
    IF Unset(e.NEXT_PUBLIC_SUPABASE_URL)
    THEN [RouteUnloaded EXCEPT
            !.state = "threw",
            !.error = Some(<<"Supabase URL is not set. Please check your .env.local file.">>)]
    ELSE IF Unset(e.NEXT_PUBLIC_SUPABASE_ANON_KEY)
    THEN [RouteUnloaded EXCEPT
            !.state = "threw",
            !.error = Some(<<"Supabase anon key is not set. Please check your .env.local file.">>)]
    ELSE RouteLoaded

\* A request for /api/visualize arrives: the route's module is evaluated, its
\* imports first.  When the import of supabaseClient throws, the module has no
\* POST to call and the request leaves the repository's code unanswered.
LoadRoute(r) ==
    /\ req[r].pc = "arrived"
    /\ route' = IF route.state = "loaded" THEN route ELSE supabaseClient(env)
    /\ req' = [req EXCEPT ![r].pc =
                IF route'.state = "loaded" THEN "received" ELSE "unhandled"]
    /\ UNCHANGED <<apiKey, child, calls, env, ocr, page>>

----------------------------------------------------------------------------
(* POST of /api/ocr, src/unnamed/part_001 *)

\* What request.formData() gives: it throws, or the form's file and language.
OcrForm(parse, file, language) == [parse |-> parse, file |-> file, language |-> language]

OcrForms ==
    {OcrForm("throws", FALSE, None)}
    \cup {OcrForm("ok", f, l) : f \in BOOLEAN, l \in {None, Some(<<>>), Some(<<"por">>)}}

\* The file input of the page: a file and no language field.
PageOcrForm == OcrForm("ok", TRUE, None)

\* The JSON of a successful answer of the OCR service.  ErrorMessage is absent,
\* a list of messages or a single string; ParsedResults is absent, empty, or
\* holds one result, whose ParsedText is a JavaScript value.
OcrData(errored, errorMessage, parsedResults) ==
    [IsErroredOnProcessing |-> errored, ErrorMessage |-> errorMessage,
     ParsedResults |-> parsedResults]

ParsedTexts == {JsUndefined, JsString(<<>>), JsString(<<"c">>), JsString(<<" ">>)}

OcrDatas ==
    {OcrData(e, m, p) :
        e \in BOOLEAN,
        m \in {"absent", "list", "string"},
        p \in {None, Some(<<>>)} \cup {Some(<<t>>) : t \in ParsedTexts}}

\* How the fetch of the OCR service ends: it rejects; it answers with a
\* non-success status and a body that is not JSON, or is JSON with an
\* ErrorMessage, with ErrorDetails, or with neither; it answers with success and
\* a body that is not JSON, or with the JSON data.
OcrOutcome(kind, status, detail, data) ==
    [kind |-> kind, status |-> status, detail |-> detail, data |-> data]

NoOcrData == OcrData(FALSE, "absent", None)

\* Non-success statuses the service answers with.
OcrFailureStatuses == {403, 500, 503}

OcrOutcomes ==
    {OcrOutcome("rejects", 0, "none", NoOcrData)}
    \cup {OcrOutcome("notOk", s, d, NoOcrData) :
            s \in OcrFailureStatuses,
            d \in {"notJson", "ErrorMessage", "ErrorDetails", "neither"}}
    \cup {OcrOutcome("ok", 200, "notJson", NoOcrData)}
    \cup {OcrOutcome("ok", 200, "json", d) : d \in OcrDatas}

NoTextFound == <<"No text found in image.">>
OcrFetchErrorMessage == <<"<error.message of the OCR route>">>

\* The locals of one invocation; sent is the form posted to the OCR service and
\* ocrResponse how its fetch ended.
NewOcrRequest(pc, form) ==
    [pc |-> pc, form |-> form, fetches |-> 0, sent |-> None, ocrResponse |-> None,
     responses |-> <<>>]

NoOcr == NewOcrRequest("idle", PageOcrForm)

\* Line 63: the catch of the whole handler.
OcrInternalError ==
    Json([error |-> <<"Internal server error.">>, details |-> OcrFetchErrorMessage], 500)

\* Lines 5-29: the form, the file check, the key check and the fetch.
OcrStart ==
    /\ ocr.pc = "received"
    /\ ocr' =
         IF ocr.form.parse = "throws" THEN Respond(ocr, OcrInternalError)
         ELSE IF ~ocr.form.file
         THEN Respond(ocr, Json([error |-> <<"No file provided.">>], 400))
         ELSE IF Unset(env.OCR_SPACE_API_KEY)
         THEN Respond(ocr, Json([error |-> <<"OCR service configuration error.">>], 500))
         ELSE [ocr EXCEPT
                 !.pc = "awaitOcr",
                 !.fetches = @ + 1,
                 !.sent = Some([file |-> TRUE,
                                apikey |-> env.OCR_SPACE_API_KEY[1],
                                language |-> IF Unset(ocr.form.language)
                                             THEN <<"eng">>
                                             ELSE ocr.form.language[1],
                                isOverlayRequired |-> <<"false">>])]
    /\ UNCHANGED <<apiKey, req, child, calls, env, route, page>>

\* A variant of OcrNotOkResponse that answers every non-success status with 500.
OcrNotOkResponse500(out) ==
    Json([error |-> <<"OCR API request failed with status ", ToString(out.status), ".">>,
          details |-> <<"Unknown OCR API error">>],
         500)

\* Lines 31-41: the answer to a non-success status.
OcrNotOkResponse(out) ==
    Json([error |-> <<"OCR API request failed with status ", ToString(out.status), ".">>,
          details |-> CASE out.detail = "ErrorMessage" -> <<"<errorData.ErrorMessage>">>
                        [] out.detail = "ErrorDetails" -> <<"<errorData.ErrorDetails>">>
                        [] OTHER -> <<"Unknown OCR API error">>],
         out.status)

\* Lines 43-59: the answer to a success status whose body is the JSON data.
OcrDataResponse(data) ==
    IF data.IsErroredOnProcessing
    THEN IF data.ErrorMessage = "string"
         THEN OcrInternalError
         ELSE Json([error |-> <<"OCR processing failed.">>,
                    details |-> IF data.ErrorMessage = "list"
                                THEN <<"<ocrData.ErrorMessage.join(', ')>">>
                                ELSE <<"See OCR API logs for details.">>],
                   500)
    ELSE IF data.ParsedResults = None \/ data.ParsedResults = Some(<<>>)
    THEN Json([extractedText |-> JsString(NoTextFound), ocrData |-> data], 200)
    ELSE Json([extractedText |-> data.ParsedResults[1][1]], 200)

\* Lines 31-63: the fetch has ended.
OcrAnswers(out) ==
    /\ ocr.pc = "awaitOcr"
    /\ ocr' = Respond([ocr EXCEPT !.ocrResponse = Some(out)],
                CASE out.kind = "rejects" -> OcrInternalError
                  [] out.kind = "notOk" -> OcrNotOkResponse(out)
                  [] out.kind = "ok" /\ out.detail = "notJson" -> OcrInternalError
                  [] OTHER -> OcrDataResponse(out.data))
    /\ UNCHANGED <<apiKey, req, child, calls, env, route, page>>

----------------------------------------------------------------------------
(* HomePage, src/unnamed/part_000 *)

OcrFailedText == <<"OCR processing failed. You can try typing the problem manually.">>
PageNoTextFound == <<"No text found in image. Please review or try a different image.">>

\* Lines 18-24: the state of the component when it mounts.  pc is the fetch a
\* handler is suspended at and posted the problemText of the body it posted to
\* /api/visualize.
HomePage ==
    [problemText |-> <<>>, selectedImage |-> FALSE, ocrText |-> <<>>,
     isOcrLoading |-> FALSE, isVisualizing |-> FALSE,
     error |-> None, imageBase64 |-> None,
     pc |-> "idle", posted |-> None]

\* Line 197.
isLoading(p) == p.isOcrLoading \/ p.isVisualizing

\* Line 315: the disabled attribute of the submit button.
SubmitDisabled(p) ==
    \/ isLoading(p)
    \/ Trim(p.problemText) = <<>> /\ ~p.selectedImage /\ Trim(p.ocrText) = <<>>

\* Variant of clearVisualizationState that leaves the error in place.
clearVisualizationStateKeepsError(p) == [p EXCEPT !.imageBase64 = None]

\* Lines 46-49.
clearVisualizationState(p) == [p EXCEPT !.imageBase64 = None, !.error = None]

\* Texts the user types into the problem box and into the OCR box.
TypedTexts == {<<>>, <<" ">>, <<"c">>, <<"$", "&">>, OcrFailedText}

\* Lines 51-56; the box is disabled while loading and while an image is
\* selected (line 228).
handleTextChange(value) ==
    /\ ~isLoading(page) /\ ~page.selectedImage
    /\ page' = clearVisualizationState(
                 [page EXCEPT !.problemText = value,
                              !.selectedImage = FALSE,
                              !.ocrText = <<>>])
    /\ UNCHANGED <<apiKey, req, child, calls, env, route, ocr>>

\* Lines 58-76, up to the await of the fetch of /api/ocr; the input is disabled
\* while loading (line 259).  The event carries a file.
handleImageChange ==
    /\ ~isLoading(page)
    /\ page' = [clearVisualizationState(page) EXCEPT
                  !.selectedImage = TRUE,
                  !.problemText = <<>>,
                  !.ocrText = <<>>,
                  !.isOcrLoading = TRUE,
                  !.pc = "awaitOcr"]
    /\ ocr' = NewOcrRequest("received", PageOcrForm)
    /\ UNCHANGED <<apiKey, req, child, calls, env, route>>

PageFetchErrorMessage == <<"<message of the error fetch or response.json() threw>">>

\* response.ok
Ok(response) == response.status >= 200 /\ response.status <= 299

\* Lines 78-92: the fetch of /api/ocr has ended: delivered is FALSE when the
\* fetch rejected or the body could not be read.  The invocation that answered
\* is over and its locals are gone.
OcrFetchReturns(delivered) ==
    /\ page.pc = "awaitOcr"
    /\ ocr.pc = "done"
    /\ LET response == ocr.responses[1]
           result == response.body
           message == IF ~delivered THEN PageFetchErrorMessage
                      ELSE IF "error" \in DOMAIN result THEN result.error
                      ELSE <<"OCR request failed with status ",
                             ToString(response.status), ". Details: undefined">>
           extractedText == IF "extractedText" \in DOMAIN result
                            THEN result.extractedText ELSE JsUndefined
       IN  page' =
             IF delivered /\ Ok(response)
             THEN [page EXCEPT
                     !.ocrText = IF Falsy(extractedText) THEN PageNoTextFound
                                 ELSE extractedText.s,
                     !.isOcrLoading = FALSE,
                     !.pc = "idle"]
             ELSE [page EXCEPT
                     !.error = Some(<<"OCR failed: ">> \o message),
                     !.ocrText = OcrFailedText,
                     !.isOcrLoading = FALSE,
                     !.pc = "idle"]
    /\ ocr' = NoOcr
    /\ UNCHANGED <<apiKey, req, child, calls, env, route>>

\* Lines 97-100; the box is rendered when an image is selected (line 293) and
\* disabled while loading (line 304).
handleOcrTextChange(value) ==
    /\ ~isLoading(page) /\ page.selectedImage
    /\ page' = clearVisualizationState([page EXCEPT !.ocrText = value])
    /\ UNCHANGED <<apiKey, req, child, calls, env, route, ocr>>

\* What JSON.stringify({ problemText: textToProcess }) is parsed to.
PostedBody(textToProcess) ==
    [parse |-> "ok", top |-> "object", problemText |-> JsString(textToProcess)]

\* Lines 102-135, up to the await of the fetch of /api/visualize; the button is
\* disabled as line 315 says.
handleSubmit ==
    /\ ~SubmitDisabled(page)
    /\ LET cleared == clearVisualizationState(page)
           textToProcess == IF page.selectedImage THEN page.ocrText
                            ELSE page.problemText
           failed(message) == [cleared EXCEPT !.error = Some(message)]
       IN  IF Trim(textToProcess) = <<>> /\ ~page.selectedImage
           THEN /\ page' = failed(<<"Please enter a math problem or upload an image.">>)
                /\ UNCHANGED <<req, child, calls>>
           ELSE IF page.selectedImage /\ Trim(page.ocrText) = <<>>
           THEN /\ page' = failed(<<"Please wait for OCR to complete, or if it failed, ensure the image has text or type manually.">>)
                /\ UNCHANGED <<req, child, calls>>
           ELSE IF page.selectedImage /\ page.ocrText = OcrFailedText
           THEN /\ page' = failed(<<"OCR processing failed. Please review the image or type the problem manually.">>)
                /\ UNCHANGED <<req, child, calls>>
           ELSE /\ page' = [cleared EXCEPT
                              !.isVisualizing = TRUE,
                              !.pc = "awaitVisualize",
                              !.posted = Some(textToProcess)]
                /\ req' = [req EXCEPT ![1] = NewRequest("arrived", PostedBody(textToProcess))]
                /\ child' = [child EXCEPT ![1] = NoChild]
                /\ calls' = [calls EXCEPT ![1] = NoCalls]
    /\ UNCHANGED <<apiKey, env, route, ocr>>

\* Lines 139-142: the message of the error thrown for a response that is not ok.
NotOkMessage(result) ==
    IF "error" \in DOMAIN result THEN result.error
    ELSE <<"Visualization API request failed. Details: ">>
         \o (IF "details" \in DOMAIN result THEN result.details
             ELSE <<"Unknown error from API">>)

\* No invocation of the visualization route is serving the page.
IdleRequest == NewRequest("idle", PostedBody(<<>>))

\* Lines 137-159: the fetch of /api/visualize has ended: delivered is FALSE when
\* the fetch rejected or the body is not JSON, as it is when the route's module
\* could not be evaluated.  The invocation that answered is over: its locals
\* and its subprocess are gone.
VisualizeFetchReturns(delivered) ==
    /\ page.pc = "awaitVisualize"
    /\ req[1].pc \in {"done", "unhandled"}
    /\ delivered => req[1].pc = "done"
    /\ LET settled == [page EXCEPT !.isVisualizing = FALSE, !.pc = "idle",
                                   !.posted = None]
           caught(message) ==
               [settled EXCEPT !.error = Some(<<"Visualization failed: ">> \o message),
                               !.imageBase64 = None]
       IN  page' =
             IF ~delivered THEN caught(PageFetchErrorMessage)
             ELSE LET response == req[1].responses[1]
                      result == response.body
                  IN  IF ~Ok(response) THEN caught(NotOkMessage(result))
                      ELSE IF "imageBase64" \in DOMAIN result /\ result.imageBase64 # <<>>
                      THEN [settled EXCEPT !.imageBase64 = Some(result.imageBase64)]
                      ELSE [settled EXCEPT !.error =
                              Some(IF "error" \in DOMAIN result THEN result.error
                                   ELSE IF "warning" \in DOMAIN result THEN result.warning
                                   ELSE <<"No image data returned by the visualizer.">>)]
    /\ req' = [req EXCEPT ![1] = IdleRequest]
    /\ child' = [child EXCEPT ![1] = NoChild]
    /\ calls' = [calls EXCEPT ![1] = NoCalls]
    /\ UNCHANGED <<apiKey, env, route, ocr>>

----------------------------------------------------------------------------
(* One request, from its arrival to its response *)

Init ==
    /\ apiKey \in ApiKeys
    /\ \E b \in RawBodies :
         req = [r \in Slots |->
                  IF r = 1 THEN NewRequest("received", b)
                  ELSE NewRequest("idle", b)]
    /\ child = [r \in Slots |-> NoChild]
    /\ calls = [r \in Slots |-> NoCalls]
    /\ env = EnvConfigured
    /\ route = RouteLoaded
    /\ ocr = NoOcr
    /\ page = HomePage

Step(r) ==
    \/ Start(r)
    \/ ParseBody(r)
    \/ \E out \in ModelOutcomes, launch \in Launches : ModelAnswers(r, out, launch)
    \/ \E data \in StdoutChunks : StdoutData(r, data)
    \/ \E data \in StderrChunks : StderrData(r, data)
    \/ \E exitCode \in ExitCodes \cup {SpawnFailedExit} : Close(r, exitCode)
    \/ ErrorEvent(r)
    \/ PythonSettled(r)

Next == Step(1)

Spec == Init /\ [][Next]_vars

----------------------------------------------------------------------------
(* The fence cleanup on its own: a request waiting for the model, answered *)
(* with each text built from fences, language names, blanks and code       *)

SanitizePieces == {Fence, PythonWord, <<" ">>, <<"\n">>, <<"x">>}

\* The texts the cleanup can be given: line 164 has answered the blank ones.
SanitizeInputs ==
    {t \in {Concat(ps) : ps \in SeqUpTo(SanitizePieces, MaxPieces)} :
        Trim(t) # <<>>}

\* The state ParseBody leaves a request with the text "c" in.
AwaitingModel ==
    [NewRequest("awaitModel",
                [parse |-> "ok", top |-> "object", problemText |-> JsString(<<"c">>)])
        EXCEPT !.problemText = Some(<<"c">>),
               !.fullPrompt = Some(BuildPrompt(<<"c">>))]

InitSanitize ==
    /\ apiKey = Some(<<"k">>)
    /\ req = [r \in Slots |->
                IF r = 1 THEN AwaitingModel
                ELSE NewRequest("idle", AwaitingModel.rawBody)]
    /\ child = [r \in Slots |-> NoChild]
    /\ calls = [r \in Slots |-> IF r = 1 THEN [NoCalls EXCEPT !.generate = 1] ELSE NoCalls]
    /\ env = EnvConfigured
    /\ route = RouteLoaded
    /\ ocr = NoOcr
    /\ page = HomePage

NextSanitize ==
    /\ req[1].pc = "awaitModel"
    /\ \E t \in SanitizeInputs, launch \in Launches :
         ModelAnswers(1, ModelOutcome("text", "", t), launch)

SpecSanitize == InitSanitize /\ [][NextSanitize]_vars

----------------------------------------------------------------------------
(* One request sent to either route of a server that has just started, under  *)
(* each configuration of the route it is sent to                             *)

InitService ==
    /\ route = RouteUnloaded
    /\ child = [r \in Slots |-> NoChild]
    /\ calls = [r \in Slots |-> NoCalls]
    /\ page = HomePage
    /\ \/ /\ apiKey \in ApiKeys
          /\ \E u \in EnvValues, a \in EnvValues : env = EnvOf(Some(<<"v">>), u, a)
          /\ \E b \in RawBodies :
               req = [r \in Slots |->
                        IF r = 1 THEN NewRequest("arrived", b)
                        ELSE NewRequest("idle", b)]
          /\ ocr = NoOcr
       \/ /\ apiKey = Some(<<"k">>)
          /\ \E k \in EnvValues : env = EnvOf(k, Some(<<"v">>), Some(<<"v">>))
          /\ req = [r \in Slots |-> NewRequest("idle", AwaitingModel.rawBody)]
          /\ \E f \in OcrForms : ocr = NewOcrRequest("received", f)

NextService ==
    \/ LoadRoute(1)
    \/ Step(1)
    \/ OcrStart
    \/ \E out \in OcrOutcomes : OcrAnswers(out)

SpecService == InitService /\ [][NextService]_vars

----------------------------------------------------------------------------
(* Two requests to /api/visualize served at once: their steps interleave in  *)
(* every order.  Each request has its own text and each subprocess writes    *)
(* its own payload, so that what belongs to which can be told apart.         *)

ConcText(r) == IF r = 1 THEN <<"c">> ELSE <<"$", "&">>
Payload(r) == IF r = 1 THEN <<"A">> ELSE <<"B">>

ConcChunks(r) == {base64MarkerStart \o Payload(r) \o base64MarkerEnd, Payload(r)}

ConcOutcomes == {ModelOutcome("throws", "", <<>>), ModelOutcome("text", "", <<"x">>)}

InitConc ==
    /\ apiKey \in ApiKeys
    /\ req = [r \in Slots |-> NewRequest("received", PostedBody(ConcText(r)))]
    /\ child = [r \in Slots |-> NoChild]
    /\ calls = [r \in Slots |-> NoCalls]
    /\ env = EnvConfigured
    /\ route = RouteLoaded
    /\ ocr = NoOcr
    /\ page = HomePage

StepConc(r) ==
    \/ Start(r)
    \/ ParseBody(r)
    \/ \E out \in ConcOutcomes, launch \in {"started", "failed"} :
         ModelAnswers(r, out, launch)
    \/ /\ child[r].nOut < MaxConcChunks
       /\ \E data \in ConcChunks(r) : StdoutData(r, data)
    \/ StderrData(r, <<"W">>)
    \/ \E exitCode \in {ExitCode(0), ExitCode(1), SpawnFailedExit} : Close(r, exitCode)
    \/ ErrorEvent(r)
    \/ PythonSettled(r)

NextConc == \E r \in Slots : StepConc(r)

SpecConc == InitConc /\ [][NextConc]_vars

----------------------------------------------------------------------------
(* One executePython call and the events of its subprocess in every order:  *)
(* besides the orders of Spec, 'error' is emitted for a process that runs,  *)
(* before or after its 'close'                                               *)

\* The state ModelAnswers leaves: the handler awaits executePython.
InitEvents ==
    /\ apiKey = Some(<<"k">>)
    /\ req = [r \in Slots |->
                IF r = 1
                THEN [AwaitingModel EXCEPT
                        !.pc = "awaitPython",
                        !.result = Some(ModelOutcome("text", "", <<"x">>)),
                        !.generatedCode = Some(<<"x">>),
                        !.cleanedCode = Some(Sanitize(<<"x">>))]
                ELSE NewRequest("idle", AwaitingModel.rawBody)]
    /\ \E launch \in {"started", "failed"} :
         child = [r \in Slots |->
                    IF r = 1 THEN executePython(Sanitize(<<"x">>), launch) ELSE NoChild]
    /\ calls = [r \in Slots |->
                  IF r = 1 THEN [generate |-> 1, spawn |-> 1] ELSE NoCalls]
    /\ env = EnvConfigured
    /\ route = RouteLoaded
    /\ ocr = NoOcr
    /\ page = HomePage

\* 'error' for a process that was started.
ErrorAfterStart(r) ==
    /\ child[r].launch = "started"
    /\ ~child[r].errored
    /\ child' = [child EXCEPT ![r] = OnError(@, SpawnErrorMessage)]
    /\ UNCHANGED <<apiKey, req, calls, env, route, ocr, page>>

NextEvents ==
    \/ \E data \in StdoutChunks : StdoutData(1, data)
    \/ \E data \in StderrChunks : StderrData(1, data)
    \/ \E exitCode \in ExitCodes \cup {SpawnFailedExit} : Close(1, exitCode)
    \/ ErrorEvent(1)
    \/ ErrorAfterStart(1)
    \/ PythonSettled(1)

SpecEvents == InitEvents /\ [][NextEvents]_vars

----------------------------------------------------------------------------
(* The page and the two routes together: the user types, chooses images and  *)
(* submits; each fetch of the page is served by the route it addresses       *)

\* The configurations of the server: everything set, or one credential unset.
PageEnvs ==
    {EnvConfigured,
     EnvOf(None, Some(<<"v">>), Some(<<"v">>)),
     EnvOf(Some(<<"v">>), None, Some(<<"v">>))}

PageOcrOutcomes ==
    {OcrOutcome("rejects", 0, "none", NoOcrData),
     OcrOutcome("notOk", 403, "neither", NoOcrData),
     OcrOutcome("ok", 200, "json", OcrData(TRUE, "list", None)),
     OcrOutcome("ok", 200, "json", OcrData(FALSE, "absent", None)),
     OcrOutcome("ok", 200, "json", OcrData(FALSE, "absent", Some(<<JsString(<<>>)>>))),
     OcrOutcome("ok", 200, "json", OcrData(FALSE, "absent", Some(<<JsString(<<"c">>)>>)))}

PageModelOutcomes ==
    {ModelOutcome("throws", "", <<>>),
     ModelOutcome("text", "", RefusalPrefix \o <<"n", "o">>),
     ModelOutcome("text", "", <<"x">>)}

\* What the subprocess writes: an image between the markers, or the markers
\* with nothing between them.
PageChunks ==
    {base64MarkerStart \o <<"A">> \o base64MarkerEnd,
     base64MarkerStart \o base64MarkerEnd}

InitPage ==
    /\ apiKey \in ApiKeys
    /\ env \in PageEnvs
    /\ route = RouteUnloaded
    /\ req = [r \in Slots |-> IdleRequest]
    /\ child = [r \in Slots |-> NoChild]
    /\ calls = [r \in Slots |-> NoCalls]
    /\ ocr = NoOcr
    /\ page = HomePage

NextPage ==
    \/ \E value \in TypedTexts : handleTextChange(value)
    \/ handleImageChange
    \/ \E value \in TypedTexts : handleOcrTextChange(value)
    \/ handleSubmit
    \/ OcrStart
    \/ \E out \in PageOcrOutcomes : OcrAnswers(out)
    \/ \E delivered \in BOOLEAN : OcrFetchReturns(delivered)
    \/ LoadRoute(1)
    \/ Start(1)
    \/ ParseBody(1)
    \/ \E out \in PageModelOutcomes, launch \in {"started", "failed"} :
         ModelAnswers(1, out, launch)
    \/ /\ child[1].nOut < MaxPageChunks
       /\ \E data \in PageChunks : StdoutData(1, data)
    \/ \E exitCode \in {ExitCode(0), ExitCode(1), SpawnFailedExit} : Close(1, exitCode)
    \/ ErrorEvent(1)
    \/ PythonSettled(1)
    \/ \E delivered \in BOOLEAN : VisualizeFetchReturns(delivered)

SpecPage == InitPage /\ [][NextPage]_vars

----------------------------------------------------------------------------
(* The marker extraction on its own: a request whose subprocess has exited *)
(* with code 0, for each captured stdout built from markers and text       *)

\* The end marker without its leading colon, which the start marker's last
\* character can complete.
EndMarkerTail == SubSeq(base64MarkerEnd, 2, Len(base64MarkerEnd))

OutputPieces ==
    {base64MarkerStart, base64MarkerEnd, EndMarkerTail, <<"A">>, <<":">>, <<"\n">>}

OutputInputs == {Concat(ps) : ps \in SeqUpTo(OutputPieces, MaxOutPieces)}

\* The state the 'close' handler leaves: the subprocess wrote out in one chunk
\* and exited with code 0.
ExitedChild(code, out) ==
    OnClose(IF out = <<>> THEN executePython(code, "started")
            ELSE OnStdoutData(executePython(code, "started"), out),
            ExitCode(0))

InitExtract ==
    /\ apiKey = Some(<<"k">>)
    /\ req = [r \in Slots |->
                IF r = 1
                THEN [AwaitingModel EXCEPT
                        !.pc = "awaitPython",
                        !.result = Some(ModelOutcome("text", "", <<"x">>)),
                        !.generatedCode = Some(<<"x">>),
                        !.cleanedCode = Some(Sanitize(<<"x">>))]
                ELSE NewRequest("idle", AwaitingModel.rawBody)]
    /\ \E out \in OutputInputs :
         child = [r \in Slots |->
                    IF r = 1 THEN ExitedChild(Sanitize(<<"x">>), out) ELSE NoChild]
    /\ calls = [r \in Slots |->
                  IF r = 1 THEN [generate |-> 1, spawn |-> 1] ELSE NoCalls]
    /\ env = EnvConfigured
    /\ route = RouteLoaded
    /\ ocr = NoOcr
    /\ page = HomePage

NextExtract == PythonSettled(1)

SpecExtract == InitExtract /\ [][NextExtract]_vars

----------------------------------------------------------------------------
(* Properties *)

KeyConfigured == apiKey # None /\ apiKey # Some(<<>>)

\* The positions (0-based) at which marker occurs in s.
Occurrences(s, marker) ==
    {i \in 0..(Len(s) - Len(marker)) : SubSeq(s, i + 1, i + Len(marker)) = marker}

\* The first line of a text: what precedes its first line feed.
FirstLine(x) ==
    LET feeds == {i \in 1..Len(x) : x[i] = "\n"}
    IN  IF feeds = {} THEN x
        ELSE SubSeq(x, 1, (CHOOSE i \in feeds : \A j \in feeds : i <= j) - 1)

\* A response is an image or an error, never both and never neither.
ImageOrError(response) ==
    \/ /\ response.status = 200
       /\ "imageBase64" \in DOMAIN response.body
       /\ "error" \notin DOMAIN response.body
    \/ /\ response.status # 200
       /\ "error" \in DOMAIN response.body
       /\ "imageBase64" \notin DOMAIN response.body

\* C1: a request that has ended has sent exactly one response, which is a 200
\* with an imageBase64 field or a non-200 with an error field; a request that
\* has not ended has sent none.
ExactlyOneResponse ==
    \A r \in Slots :
        IF req[r].pc = "done"
        THEN Len(req[r].responses) = 1 /\ ImageOrError(req[r].responses[1])
        ELSE req[r].responses = <<>>

\* A request answered 200 with the image "A" its subprocess printed.
WitnessImageResponse ==
    /\ req[1].pc = "done"
    /\ req[1].responses = <<Json([imageBase64 |-> <<"A">>], 200)>>
    /\ child[1].stderr # <<>>

\* The body parsed to an object whose problemText is a string that trims to "".
EmptyAfterTrim(rq) ==
    /\ rq.rawBody.parse = "ok"
    /\ rq.rawBody.top = "object"
    /\ rq.rawBody.problemText.t = "string"
    /\ Trim(rq.rawBody.problemText.s) = <<>>

\* C2 as stated: a request whose problem text is empty after trimming is
\* answered with a 4xx and calls no external service, whatever the
\* configuration.
EmptyTextIs400 ==
    \A r \in Slots :
        EmptyAfterTrim(req[r]) =>
            /\ calls[r] = NoCalls
            /\ req[r].pc = "done" =>
                 /\ Len(req[r].responses) = 1
                 /\ req[r].responses[1].status \in 400..499

\* C2, amended: a request whose problem text is empty after trimming never
\* calls the model or spawns the interpreter; it is answered 400 when the
\* model's key is configured and with the 500 of the missing key when not.
EmptyTextShortCircuits ==
    \A r \in Slots :
        EmptyAfterTrim(req[r]) =>
            /\ calls[r] = NoCalls
            /\ child[r].launch = "none"
            /\ req[r].pc \in {"idle", "received", "readBody", "done"}
            /\ req[r].pc = "done" =>
                 /\ Len(req[r].responses) = 1
                 /\ req[r].responses[1].status = IF KeyConfigured THEN 400 ELSE 500
                 /\ "error" \in DOMAIN req[r].responses[1].body

\* A whitespace-only text answered 400.
WitnessBlankText400 ==
    /\ req[1].pc = "done"
    /\ req[1].rawBody.problemText = JsString(<<" ", "\n">>)
    /\ req[1].rawBody.top = "object"
    /\ req[1].responses[1].status = 400

\* A text the cleanup has nothing to remove from: no blank at either end, no
\* leading tagged fence, no trailing fence, and a first line that is not just
\* the language name.
AlreadyClean(x) ==
    /\ x # <<>>
    /\ x[1] \notin WhiteSpace
    /\ x[Len(x)] \notin WhiteSpace
    /\ ~(Len(x) >= Len(FencePython) /\ SubSeq(x, 1, Len(FencePython)) = FencePython)
    /\ ~(Len(x) >= Len(Fence) /\ SubSeq(x, Len(x) - Len(Fence) + 1, Len(x)) = Fence)
    /\ Trim(FirstLine(x)) # PythonWord

\* C3 as stated: cleaning the cleaned code again changes nothing.
SanitizeIdempotent ==
    \A r \in Slots :
        req[r].cleanedCode # None =>
            Sanitize(req[r].cleanedCode[1]) = req[r].cleanedCode[1]

\* C3, amended: the cleanup leaves a text unchanged exactly when the text is
\* already clean; in particular cleaning already-clean code is a no-op.
CleanCodeIsUnchanged ==
    \A r \in Slots :
        req[r].cleanedCode # None =>
            (AlreadyClean(req[r].generatedCode[1])
                <=> req[r].cleanedCode[1] = req[r].generatedCode[1])

\* Already-clean code of several lines, with a fence inside it, cleaned.
WitnessCleanCode ==
    /\ req[1].pc = "awaitPython"
    /\ req[1].generatedCode = Some(<<"x", "\n">> \o Fence \o <<"x">>)
    /\ req[1].cleanedCode = req[1].generatedCode

\* C4: the code given to the interpreter does not begin with a fence, its first
\* line is not just a fence or the language name, and it does not end with a
\* fence.
ExecutedCodeHasNoFence ==
    \A r \in Slots :
        child[r].launch # "none" =>
            /\ ~StartsWith(child[r].code, Fence)
            /\ Trim(FirstLine(child[r].code)) \notin {Fence, FencePython, PythonWord}
            /\ ~EndsWith(child[r].code, Fence)

\* Some start marker is followed, after its last character, by an end marker.
MarkersInOrder(o) ==
    \E i \in Occurrences(o, base64MarkerStart), j \in Occurrences(o, base64MarkerEnd) :
        j >= i + Len(base64MarkerStart)

\* C5: when the captured stdout holds a start marker and, after it, an end
\* marker, the response is a 200 whose imageBase64 is the text between the
\* first start marker and the first end marker after it: the output is
\* before + start marker + imageBase64 + end marker + after, no start marker
\* begins inside before, and no end marker begins after the start marker and
\* before the one that closes the payload.
ExtractsBetweenMarkers ==
    \A r \in Slots :
        (req[r].pythonOutput # None /\ MarkersInOrder(req[r].pythonOutput[1])) =>
            LET o == req[r].pythonOutput[1]
                response == req[r].responses[1]
                starts == Occurrences(o, base64MarkerStart)
                ends == Occurrences(o, base64MarkerEnd)
            IN  /\ Len(req[r].responses) = 1
                /\ response.status = 200
                /\ DOMAIN response.body = {"imageBase64"}
                /\ \E i \in starts :
                     LET image == response.body.imageBase64
                         from == i + Len(base64MarkerStart)
                         to == from + Len(image)
                     IN  /\ \A k \in starts : i <= k
                         /\ to \in ends
                         /\ \A k \in ends : k >= from => k >= to
                         /\ o = SubSeq(o, 1, i) \o base64MarkerStart \o image
                                \o base64MarkerEnd
                                \o SubSeq(o, to + Len(base64MarkerEnd) + 1, Len(o))

\* One marker pair around the payload "A", with text before and after it.
WitnessPayloadBetweenText ==
    /\ req[1].pc = "done"
    /\ req[1].pythonOutput =
         Some(<<"\n">> \o base64MarkerStart \o <<"A">> \o base64MarkerEnd \o <<"\n">>)
    /\ req[1].responses = <<Json([imageBase64 |-> <<"A">>], 200)>>

\* The start marker is absent, the end marker is absent, or every end marker
\* begins before every start marker.
MarkersMissing(o) ==
    \/ Occurrences(o, base64MarkerStart) = {}
    \/ Occurrences(o, base64MarkerEnd) = {}
    \/ \A i \in Occurrences(o, base64MarkerStart), j \in Occurrences(o, base64MarkerEnd) :
         j < i

\* C6: when a marker is absent from the captured stdout, or the end marker
\* occurs only before the start marker, the response is an error, not a 200,
\* whose details end with the whole captured stdout, unchanged.
MissingMarkersFail ==
    \A r \in Slots :
        (req[r].pythonOutput # None /\ MarkersMissing(req[r].pythonOutput[1])) =>
            LET o == req[r].pythonOutput[1]
                response == req[r].responses[1]
            IN  /\ Len(req[r].responses) = 1
                /\ response.status = 500
                /\ DOMAIN response.body = {"error", "details"}
                /\ Len(response.body.details) = Len(o) + 1
                /\ \A k \in 1..Len(o) : response.body.details[k + 1] = o[k]

\* The end marker before the start marker: an error that quotes the output.
WitnessMarkersOutOfOrder ==
    /\ req[1].pc = "done"
    /\ req[1].pythonOutput = Some(base64MarkerEnd \o <<"A">> \o base64MarkerStart)
    /\ req[1].responses[1].status = 500

\* C7: when the subprocess has exited with a code other than 0, the promise of
\* executePython is rejected with a message made of the exit code and then the
\* captured stderr, unchanged; stdout is not returned, and the response, once
\* sent, is the 500 that carries the message.
NonZeroExitRejects ==
    \A r \in Slots :
        LET c == child[r]
        IN  (c.launch = "started" /\ c.closed /\ c.exit # ExitCode(0)) =>
                /\ c.promise.state = "rejected"
                /\ Len(c.promise.value) = 3 + Len(c.stderr)
                /\ c.promise.value[2] = (IF c.exit.isNull THEN "null"
                                         ELSE ToString(c.exit.n))
                /\ \A k \in 1..Len(c.stderr) : c.promise.value[3 + k] = c.stderr[k]
                /\ req[r].pythonOutput = None
                /\ req[r].pc = "done" =>
                     /\ req[r].responses[1].status = 500
                     /\ "imageBase64" \notin DOMAIN req[r].responses[1].body
                     /\ req[r].responses[1].body.details = c.promise.value

\* Exit code 1 after output on both streams, answered.
WitnessExitOne ==
    /\ req[1].pc = "done"
    /\ child[1].exit = ExitCode(1)
    /\ child[1].closed
    /\ child[1].stderr = <<"W">>
    /\ child[1].stdout # <<>>

\* The text each chunk decodes to, in the order of arrival.
RECURSIVE DecodedInOrder(_)
DecodedInOrder(chunks) ==
    IF chunks = <<>> THEN <<>>
    ELSE BufToString(Head(chunks)) \o DecodedInOrder(Tail(chunks))

\* C8: when the subprocess has exited with code 0, the promise of
\* executePython is resolved with all the text its stdout delivered, whether
\* or not it wrote to stderr, and that text is what the handler extracts from.
ZeroExitResolves ==
    \A r \in Slots :
        LET c == child[r]
        IN  (c.launch = "started" /\ c.closed /\ c.exit = ExitCode(0)) =>
                /\ c.promise.state = "resolved"
                /\ c.promise.value = DecodedInOrder(c.outChunks)
                /\ req[r].pc = "done" => req[r].pythonOutput = Some(c.promise.value)

\* Exit code 0 with text on stderr and two chunks of stdout.
WitnessZeroExitWithStderr ==
    /\ child[1].closed
    /\ child[1].exit = ExitCode(0)
    /\ child[1].stderr # <<>>
    /\ Len(child[1].outChunks) >= 2
    /\ child[1].promise.state = "resolved"
    /\ req[1].pc = "done"

\* The model answered with a text that begins with the refusal prefix.
Refused(rq) ==
    /\ rq.result # None
    /\ rq.result[1].kind = "text"
    /\ Len(rq.result[1].text) >= Len(RefusalPrefix)
    /\ \A k \in 1..Len(RefusalPrefix) : rq.result[1].text[k] = RefusalPrefix[k]

\* C9: a text that begins with ERROR:CANNOT_VISUALIZE: is answered with the
\* 422 that quotes it, and is neither cleaned nor executed.
RefusalIs422 ==
    \A r \in Slots :
        Refused(req[r]) =>
            /\ req[r].pc = "done"
            /\ req[r].responses =
                 <<Json([error |-> <<"Problem cannot be visualized by AI">>,
                         details |-> req[r].result[1].text], 422)>>
            /\ req[r].cleanedCode = None
            /\ calls[r].spawn = 0
            /\ child[r].launch = "none"

\* A refusal with a reason after the prefix, answered.
WitnessRefusal ==
    /\ req[1].pc = "done"
    /\ req[1].result # None
    /\ req[1].result[1].text = RefusalPrefix \o <<"n", "o">>

\* The model reported the prompt as blocked.
Blocked(rq) == rq.result # None /\ rq.result[1].kind = "blocked"

\* C10 as stated: a blocked prompt is answered 422.
BlockedIs422 ==
    \A r \in Slots :
        Blocked(req[r]) =>
            /\ Len(req[r].responses) = 1
            /\ req[r].responses[1].status = 422

\* C10, amended: a blocked prompt is answered with an error that carries the
\* block reason and the status 400, the status of bad input; nothing is cleaned
\* or executed.
BlockedIs400 ==
    \A r \in Slots :
        Blocked(req[r]) =>
            /\ req[r].pc = "done"
            /\ Len(req[r].responses) = 1
            /\ req[r].responses[1].status = 400
            /\ req[r].responses[1].body.error =
                 <<"Content blocked: ", req[r].result[1].blockReason>>
            /\ req[r].responses[1].body.details.blockReason =
                 req[r].result[1].blockReason
            /\ calls[r].spawn = 0

\* A prompt blocked for SAFETY, answered.
WitnessBlocked ==
    /\ req[1].pc = "done"
    /\ req[1].result # None
    /\ req[1].result[1].kind = "blocked"
    /\ req[1].result[1].blockReason = "SAFETY"

----------------------------------------------------------------------------
(* The order of the stages of one request *)

\* What a request has done so far fits the order synthesize, sanitize, execute,
\* extract, respond.
StagesSoFar ==
    LET rq == req[1]
        c == calls[1]
        ch == child[1]
    IN  /\ c.generate <= 1 /\ c.spawn <= 1 /\ Len(rq.responses) <= 1
        /\ c.generate = 1 => rq.fullPrompt # None
        /\ rq.result # None => c.generate = 1
        /\ rq.generatedCode # None => rq.result # None /\ rq.result[1].kind = "text"
        /\ rq.cleanedCode # None =>
              /\ rq.generatedCode # None
              /\ Trim(rq.generatedCode[1]) # <<>>
              /\ ~RefusedByModel(rq.generatedCode[1])
              /\ rq.cleanedCode[1] = Sanitize(rq.generatedCode[1])
        /\ c.spawn = 1 <=> rq.cleanedCode # None
        /\ IF c.spawn = 1 THEN ch.code = rq.cleanedCode[1] ELSE ch = NoChild
        /\ rq.pythonOutput # None =>
              /\ c.spawn = 1
              /\ ch.promise = Resolve(Pending, rq.pythonOutput[1])
        /\ rq.responses # <<>> =>
              /\ rq.pc = "done"
              /\ rq.responses[1].status = 200 => rq.pythonOutput # None
              /\ rq.pythonOutput # None =>
                    rq.responses[1] = ExtractResponse(rq.pythonOutput[1])
        /\ rq.pc = "done" => rq.responses # <<>>
        /\ rq.pc = "awaitPython" => c.spawn = 1
        /\ rq.pc = "awaitModel" => c.generate = 1 /\ rq.result = None

\* A step never undoes or repeats a stage, and nothing follows the response.
StagesStep ==
    /\ calls'[1].generate \in {calls[1].generate, calls[1].generate + 1}
    /\ calls'[1].spawn \in {calls[1].spawn, calls[1].spawn + 1}
    /\ calls'[1].spawn > calls[1].spawn => calls'[1].generate = calls[1].generate
    /\ req[1].pc = "done" => req'[1] = req[1] /\ calls'[1] = calls[1]

\* C11: within one request the stages run in the order synthesize, sanitize,
\* execute, extract, respond, each at most once: a stage starts only after the
\* one before it succeeded, a failure is answered with no later stage run, and
\* neither the model call nor the spawn is repeated.
StagesInFixedOrder == []StagesSoFar /\ [][StagesStep]_vars

\* All five stages ran: the output of a subprocess that wrote twice was
\* searched and answered.
WitnessAllStagesRan ==
    /\ req[1].pc = "done"
    /\ req[1].pythonOutput # None
    /\ calls[1] = [generate |-> 1, spawn |-> 1]
    /\ child[1].nOut = 2

----------------------------------------------------------------------------
(* The statuses of the failures *)

ModelCallFailed ==
    req[1].result # None /\ req[1].result[1].kind \in {"throws", "textThrows"}

EmptyGeneration ==
    /\ req[1].result # None
    /\ \/ req[1].result[1].kind = "noResponse"
       \/ req[1].result[1].kind = "text" /\ Trim(req[1].result[1].text) = <<>>

SubprocessFailed == child[1].promise.state = "rejected"

MarkersNotFound ==
    req[1].pythonOutput # None /\ MarkersMissing(req[1].pythonOutput[1])

OcrRequestFailed ==
    ocr.ocrResponse # None /\ ocr.ocrResponse[1].kind = "notOk"

OcrProcessingFailed ==
    /\ ocr.ocrResponse # None
    /\ ocr.ocrResponse[1].kind = "ok"
    /\ ocr.ocrResponse[1].detail = "json"
    /\ ocr.ocrResponse[1].data.IsErroredOnProcessing

\* The failures of the visualization route and the processing error of the OCR
\* service are answered with 500.
OtherFailuresAre500 ==
    /\ req[1].pc = "done"
         /\ (ModelCallFailed \/ EmptyGeneration \/ SubprocessFailed \/ MarkersNotFound)
       => req[1].responses[1].status = 500
    /\ ocr.pc = "done" /\ OcrProcessingFailed => ocr.responses[1].status = 500

\* The claim as it is stated: the non-success answer of the OCR service is
\* answered with 500 as well.
AllFailuresAre500 ==
    /\ OtherFailuresAre500
    /\ ocr.pc = "done" /\ OcrRequestFailed => ocr.responses[1].status = 500

\* C12: a failed model call, an empty generation, a failed or non-zero
\* subprocess, missing markers and an OCR processing error are answered with
\* 500; a non-success answer of the OCR service is answered with the status the
\* service gave, whatever it is.
FailuresAre500OrUpstreamStatus ==
    /\ OtherFailuresAre500
    /\ ocr.pc = "done" /\ OcrRequestFailed =>
         /\ ocr.responses[1].status = ocr.ocrResponse[1].status
         /\ "error" \in DOMAIN ocr.responses[1].body

\* The OCR service answered 403 and so did the route.
WitnessOcrStatusPassedOn ==
    /\ ocr.pc = "done"
    /\ OcrRequestFailed
    /\ ocr.ocrResponse[1].status = 403
    /\ ocr.responses[1].status = 403

----------------------------------------------------------------------------
(* The OCR route when the service found no text *)

\* The OCR service answered with success and no processing error, and its data
\* holds no parsed result or a first parsed result whose text is empty.
ZeroExtractedText ==
    /\ ocr.ocrResponse # None
    /\ ocr.ocrResponse[1].kind = "ok"
    /\ ocr.ocrResponse[1].detail = "json"
    /\ ~ocr.ocrResponse[1].data.IsErroredOnProcessing
    /\ LET parsedResults == ocr.ocrResponse[1].data.ParsedResults
       IN  \/ parsedResults = None
           \/ parsedResults = Some(<<>>)
           \/ parsedResults = Some(<<JsString(<<>>)>>)

\* C13: when the OCR service answers with success and zero extracted text, the
\* OCR route answers 200 with an extractedText that is the 'no text found'
\* sentence, not an error and not the empty string.
ZeroTextGivesSentinel ==
    ocr.pc = "done" /\ ZeroExtractedText =>
        /\ ocr.responses[1].status = 200
        /\ "error" \notin DOMAIN ocr.responses[1].body
        /\ "extractedText" \in DOMAIN ocr.responses[1].body
        /\ ocr.responses[1].body.extractedText = JsString(NoTextFound)

----------------------------------------------------------------------------
(* Requests to a server that lacks a credential *)

\* The body of a request the visualization route accepts.
ValidBody(b) ==
    b.parse = "ok" /\ b.top = "object" /\ ~InvalidProblemText(b.problemText)

StorageConfigured ==
    ~Unset(env.NEXT_PUBLIC_SUPABASE_URL) /\ ~Unset(env.NEXT_PUBLIC_SUPABASE_ANON_KEY)

\* A 5xx response whose body is the error envelope.
ErrorEnvelope5xx(responses) ==
    /\ responses # <<>>
    /\ responses[1].status >= 500 /\ responses[1].status <= 599
    /\ "error" \in DOMAIN responses[1].body

\* C14: an otherwise valid request that meets an absent credential (the model's
\* key or the storage URL or key on the visualization route, the OCR key on the
\* OCR route) ends with a 5xx JSON error envelope, and no call to the external
\* service is made.
MissingCredentialIs5xxEnvelope ==
    /\ /\ req[1].pc \in {"done", "unhandled"}
       /\ ValidBody(req[1].rawBody)
       /\ ~(KeyConfigured /\ StorageConfigured)
       => /\ ErrorEnvelope5xx(req[1].responses)
          /\ calls[1] = NoCalls
          /\ route.requests = 0
    /\ /\ ocr.pc = "done"
       /\ ocr.form.parse = "ok" /\ ocr.form.file
       /\ Unset(env.OCR_SPACE_API_KEY)
       => /\ ErrorEnvelope5xx(ocr.responses)
          /\ ocr.fetches = 0

----------------------------------------------------------------------------
(* Concurrent requests *)

\* What a request holds comes from its own input and its own subprocess.
OwnDataOnly ==
    \A r \in Slots :
        LET rq == req[r]
            c == child[r]
        IN  /\ \A i \in 1..Len(c.outChunks) : c.outChunks[i] \in ConcChunks(r)
            /\ c.stdout = DecodedInOrder(c.outChunks)
            /\ rq.problemText # None =>
                  /\ rq.problemText[1] = ConcText(r)
                  /\ rq.fullPrompt = Some(BuildPrompt(ConcText(r)))
            /\ calls[r].spawn = 1 => c.code = rq.cleanedCode[1]
            /\ rq.pythonOutput # None =>
                  /\ rq.pythonOutput[1] = DecodedInOrder(c.outChunks)
                  /\ rq.responses[1] = ExtractResponse(DecodedInOrder(c.outChunks))
            /\ (rq.responses # <<>> /\ rq.responses[1].status = 200) =>
                  rq.responses[1].body.imageBase64 = Payload(r)

\* A step reads and writes one request: the locals, the subprocess and the
\* calls of every other request stay as they are, and so does the key.
OneRequestMoves ==
    /\ apiKey' = apiKey
    /\ \E r \in Slots :
         \A s \in Slots \ {r} :
            req'[s] = req[s] /\ child'[s] = child[s] /\ calls'[s] = calls[s]

\* C15: in every interleaving of two concurrent requests, the response of each
\* depends only on its own input and the output of its own subprocess: the
\* buffers, the generated code and the payload of one are never read or written
\* by the other, and the only shared state, the configuration, is not modified.
RequestsAreIsolated == []OwnDataOnly /\ [][OneRequestMoves]_vars

\* Both subprocesses ran at once, and each request answered its own payload.
WitnessTwoImages ==
    /\ \A r \in Slots :
         /\ req[r].pc = "done"
         /\ req[r].responses[1].status = 200
         /\ req[r].responses[1].body.imageBase64 = Payload(r)
         /\ child[r].stderr # <<>>

----------------------------------------------------------------------------
(* The prompt sent to the model *)

\* The template with the text written in place of its placeholder.
TextInTemplate(text) ==
    LET i == IndexOf(ENGINEERED_PROMPT_TEMPLATE, Placeholder, 0)
    IN  SubSeq(ENGINEERED_PROMPT_TEMPLATE, 1, i)
        \o text
        \o SubSeq(ENGINEERED_PROMPT_TEMPLATE, i + Len(Placeholder) + 1,
                  Len(ENGINEERED_PROMPT_TEMPLATE))

\* C16: for every non-empty problem text, with '$' sequences or not, the prompt
\* sent to the model is the template with its placeholder replaced by the text
\* as submitted, so that the text between the START PROBLEM and END PROBLEM
\* lines is exactly the submitted text.
PromptIsVerbatim ==
    req[1].fullPrompt # None =>
        req[1].fullPrompt[1] = TextInTemplate(req[1].rawBody.problemText.s)

----------------------------------------------------------------------------
(* The outcome of one executePython call *)

\* The promise is pending until the first 'close' or 'error', and a resolved
\* promise holds what the chunks of stdout decode to, in the order they came.
OutcomeSoFar ==
    LET c == child[1]
    IN  /\ c.promise.state \in {"pending", "resolved", "rejected"}
        /\ c.promise.state = "pending" <=> ~c.closed /\ ~c.errored
        /\ c.promise.state = "resolved" =>
              /\ c.closed /\ c.exit = ExitCode(0)
              /\ c.promise.value = DecodedInOrder(c.outChunks)
        /\ Len(req[1].responses) <= 1
        /\ req[1].pc = "done" =>
              IF c.promise.state = "resolved"
              THEN req[1].pythonOutput = Some(DecodedInOrder(c.outChunks))
              ELSE req[1].responses[1].body.details = c.promise.value

\* The first 'close' or 'error' settles the promise, 'close' with code 0 by
\* resolving and every other by rejecting; no event changes a settled promise.
SettlesOnce ==
    LET c == child[1]
        d == child'[1]
    IN  /\ c.promise.state # "pending" => d.promise = c.promise
        /\ (c.promise.state = "pending" /\ d.closed) =>
              d.promise.state = IF d.exit = ExitCode(0) THEN "resolved" ELSE "rejected"
        /\ (c.promise.state = "pending" /\ d.errored) => d.promise.state = "rejected"
        /\ (c.promise.state = "pending" /\ d.promise.state = "resolved") =>
              d.promise.value = DecodedInOrder(c.outChunks)

\* C17: for every ordering of the events of the subprocess, one executePython
\* call has exactly one outcome: the first of 'close' and 'error' resolves or
\* rejects, no later event changes it, and a resolved value is the
\* concatenation, in the order of arrival, of the stdout chunks received before
\* 'close'.
ExactlyOneOutcome == []OutcomeSoFar /\ [][SettlesOnce]_vars

\* 'close' with code 0 resolved with two chunks, and 'error' came afterwards.
WitnessErrorAfterResolve ==
    /\ child[1].promise.state = "resolved"
    /\ child[1].errored
    /\ child[1].nOut = 2
    /\ req[1].pc = "done"

----------------------------------------------------------------------------
(* handleSubmit *)

\* A step in which a run of handleSubmit finishes: it returns before the fetch,
\* or its fetch of /api/visualize has ended.
SubmitFinishes ==
    \/ handleSubmit /\ page'.pc = "idle"
    \/ \E delivered \in BOOLEAN : VisualizeFetchReturns(delivered)

\* Every run of handleSubmit leaves isVisualizing false and exactly one of
\* error and imageBase64 set.
SubmitLeavesOneResult ==
    SubmitFinishes =>
        /\ ~page'.isVisualizing
        /\ (page'.error = None) # (page'.imageBase64 = None)

\* The text posted to /api/visualize is not blank, and is the text of the box
\* in use.
PostedTextIsNotBlank ==
    page.posted # None =>
        /\ page.pc = "awaitVisualize"
        /\ Trim(page.posted[1]) # <<>>
        /\ page.posted[1] = IF page.selectedImage THEN page.ocrText ELSE page.problemText
        /\ req[1].pc # "idle"
        /\ req[1].rawBody = PostedBody(page.posted[1])

\* The claim as it is stated: on every path handleSubmit ends with
\* isVisualizing false and exactly one of error and imageBase64 set, and the
\* text posted is never blank and never the OCR-failure message.
SubmitNeverPostsFailureText ==
    /\ [][SubmitLeavesOneResult]_vars
    /\ [](PostedTextIsNotBlank /\ (page.posted # None => page.posted[1] # OcrFailedText))

\* C18: every run of handleSubmit, on every path, ends with isVisualizing false
\* and exactly one of error and imageBase64 set; /api/visualize is called only
\* with a text that is not blank and that, when an image is selected, is not
\* the OCR-failure message.
SubmitPostsCheckedText ==
    /\ [][SubmitLeavesOneResult]_vars
    /\ [](PostedTextIsNotBlank
           /\ ((page.posted # None /\ page.selectedImage) =>
                 page.posted[1] # OcrFailedText))

\* A run of handleSubmit on the image path ended with the image the
\* subprocess wrote for the recognized text.
WitnessImageFromOcrText ==
    /\ page.pc = "idle"
    /\ page.selectedImage
    /\ page.ocrText = <<"c">>
    /\ page.imageBase64 = Some(<<"A">>)
    /\ page.error = None

====
